---- MODULE Spec2Model ----
(***************************************************************************)
(* A model of nyarray: the fixed-capacity inline buffer `Array<N, T>`      *)
(* (src/src/array.rs) and the hybrid container `SwitchVec<N, T>`           *)
(* (src/src/switch.rs) that starts inline and migrates to a heap `Vec`.   *)
(*                                                                         *)
(* Values of type T are modelled as identities 1..MaxVals: every value    *)
(* the caller creates is a fresh identity, so that a duplicated, leaked   *)
(* or twice-destroyed value is visible.  `drops[v]` counts the runs of    *)
(* v's destructor made by the library, `given[v]` the times v was handed  *)
(* back to the caller (Some(v), Err(v)).  The raw buffer keeps the bits   *)
(* of a moved-out value (a stale slot), as the memory does.               *)
(* Under Spec the destructor of T and the moves of T return normally; T   *)
(* is not zero-sized, so a Vec of capacity 0 owns no heap buffer.         *)
(***************************************************************************)
EXTENDS Integers, Sequences, FiniteSets, TLC

\* the const generic parameter N of Array<N, T> and SwitchVec<N, T>
N == 2
\* how many values the caller creates in one run
MaxVals == 4
\* the largest small `additional` passed to reserve
MaxAdd == 2
\* the width of usize in bits, scaled down from 16, 32 or 64
WordBits == 5

Ids == 1..MaxVals
\* the bits of a slot that was never written
Uninit == 0

\* usize::MAX and isize::MAX at that width
UsizeMax == 2^WordBits - 1
IsizeMax == 2^(WordBits - 1) - 1

Max(a, b) == IF a >= b THEN a ELSE b
Min(a, b) == IF a <= b THEN a ELSE b

\* results handed to the caller
R(kind, val) == [kind |-> kind, val |-> val, msg |-> ""]
Panic(msg) == [kind |-> "Panic", val |-> 0, msg |-> msg]
Unit == R("Unit", 0)
Ok == R("Ok", 0)
Err(v) == R("Err", v)
Some(v) == R("Some", v)
None == R("None", 0)
True == R("true", 0)
False == R("false", 0)

\* the fresh values id, id+1, .., id+k-1 in order
Fresh(id, k) == [i \in 1..k |-> id + i - 1]

(***************************************************************************)
(* Raw memory: a buffer is a function from slot index 0..N-1 to bits.     *)
(***************************************************************************)
ptr_write(buf, i, v) == [buf EXCEPT ![i] = v]
ptr_read(buf, i) == buf[i]
\* core::ptr::copy: memmove of count slots from src to dst
ptr_copy(buf, src, dst, count) ==
  [i \in DOMAIN buf |-> IF i >= dst /\ i < dst + count THEN buf[src + (i - dst)] ELSE buf[i]]
ptr_swap(buf, a, b) == [buf EXCEPT ![a] = buf[b], ![b] = buf[a]]

(***************************************************************************)
(* Array<N, T>: struct { buf: [MaybeUninit<T>; N], len: usize }            *)
(***************************************************************************)
Array_new == [buf |-> [i \in 0..(N - 1) |-> Uninit], len |-> 0]
capacity(a) == N
len(a) == a.len
set_len(a, new_len) == [a EXCEPT !.len = new_len]
is_empty(a) == len(a) = 0
\* &self.buf[0..self.len], as a sequence
as_slice(a) == [i \in 1..a.len |-> a.buf[i - 1]]

\* an operation's effect: the array after it, what it returns, and the
\* values whose destructor it ran, in order
Eff(a, ret, dropped) == [arr |-> a, ret |-> ret, dropped |-> dropped]

from_parts_len(buf, l) ==
  IF l <= N THEN Eff([buf |-> buf, len |-> l], Ok, <<>>)
  ELSE Eff(Array_new, Panic("assertion failed: len <= N"), <<>>)

\* from_raw_parts(ptr, len); `src` is the memory at ptr, valid for reads of
\* len elements. copy_nonoverlapping writes len elements from the start of
\* new_buf on, and only then from_parts_len asserts len <= N: with len > N the
\* copy writes past the N slots of new_buf, which is undefined behaviour.
\* `oob` is what was written past the buffer; with `elided` the build has
\* removed the copy into the buffer that the failing assertion leaves dead
from_raw_parts(src, l, elided) ==
  LET new_buf == [i \in 0..(N - 1) |-> IF i < l THEN src[i + 1] ELSE Uninit]
      e == from_parts_len(new_buf, l)
  IN [arr |-> e.arr, ret |-> e.ret, dropped |-> e.dropped,
      oob |-> IF l > N /\ ~elided THEN SubSeq(src, N + 1, l) ELSE <<>>]

\* mutant: the copy stops one element short of M
from_parts_short_copy(items) ==
  LET M == Len(items) IN
  IF ~(M <= N)
  THEN Eff(Array_new, Panic("assertion failed: M <= N"), items)
  ELSE LET new_buf == [i \in 0..(N - 1) |-> IF i < M - 1 THEN items[i + 1] ELSE Uninit]
       IN from_parts_len(new_buf, M)

\* from_parts::<M>(buf: [T; M]); `items` is the input array
from_parts(items) ==
  LET M == Len(items) IN
  IF ~(M <= N)
  THEN \* the assert fails while `buf` is still an owned [T; M]: unwinding drops it
       Eff(Array_new, Panic("assertion failed: M <= N"), items)
  ELSE LET new_buf == [i \in 0..(N - 1) |-> IF i < M THEN items[i + 1] ELSE Uninit]
       IN from_parts_len(new_buf, M)

\* mutant: the elements are destroyed from the last to the first
clear_backwards(a) ==
  Eff(set_len(a, 0), Unit, [i \in 1..a.len |-> a.buf[a.len - i]])

clear(a) == Eff(set_len(a, 0), Unit, as_slice(a))

\* clear() when the destructor of the element at index j panics: drop_in_place
\* of the slice has destroyed the elements before j, the panic comes out of
\* the destructor of j, and the drop glue of the slice destroys the elements
\* after j while it unwinds; set_len(0) is never reached
clear_unwinds(a, j) ==
  Eff(a, Panic("destructor"), SubSeq(as_slice(a), 1, j + 1) \o SubSeq(as_slice(a), j + 2, a.len))

\* mutant: the value is written but the length is not raised
push_unchecked_no_set_len(a, value) ==
  [a EXCEPT !.buf = ptr_write(a.buf, len(a), value)]

push_unchecked(a, value) ==
  set_len([a EXCEPT !.buf = ptr_write(a.buf, len(a), value)], len(a) + 1)

\* mutant: the capacity test is off by one
push_checked_off_by_one(a, value) ==
  IF len(a) + 1 >= capacity(a) THEN Eff(a, Err(value), <<>>)
  ELSE Eff(push_unchecked(a, value), Ok, <<>>)

\* mutant: a full buffer swallows the value and reports success
push_checked_swallows(a, value) ==
  IF len(a) + 1 > capacity(a) THEN Eff(a, Ok, <<value>>)
  ELSE Eff(push_unchecked(a, value), Ok, <<>>)

push_checked(a, value) ==
  IF len(a) = capacity(a) THEN Eff(a, Err(value), <<>>)
  ELSE Eff(push_unchecked(a, value), Ok, <<>>)

\* mutant: the panicking push lets a rejected value go without panicking
push_forgiving(a, value) ==
  LET r == push_checked(a, value) IN
  IF r.ret.kind = "Err" THEN Eff(r.arr, Unit, <<value>>) ELSE Eff(r.arr, Unit, <<>>)

push(a, value) ==
  LET r == push_checked(a, value) IN
  IF r.ret.kind = "Err"
  THEN \* the Err(value) temporary is dropped before the panic
       Eff(r.arr, Panic("push exceeds capacity"), <<value>>)
  ELSE Eff(r.arr, Unit, <<>>)

\* pop_unchecked: first set_len(len - 1), then read the slot
pop_unchecked(a) ==
  LET l == len(a) - 1
      a1 == set_len(a, l)
  IN Eff(a1, Some(ptr_read(a1.buf, l)), <<>>)

\* mutant: the slot is read before the length is lowered
pop_unchecked_steps_read_first(a) ==
  LET l == len(a) - 1
  IN << [arr |-> a, out |-> <<ptr_read(a.buf, l)>>],
        [arr |-> set_len(a, l), out |-> <<>>] >>

\* pop_unchecked statement by statement: the Array after each statement and
\* the values that statement moved out of their slots
pop_unchecked_steps(a) ==
  LET l == len(a) - 1
      a1 == set_len(a, l)
  IN << [arr |-> a1, out |-> <<>>],
        [arr |-> a1, out |-> <<ptr_read(a1.buf, l)>>] >>

pop(a) == IF is_empty(a) THEN Eff(a, None, <<>>) ELSE pop_unchecked(a)

\* mutant: the shift moves one element too few
insert_unchecked_short_shift(a, index, element) ==
  LET l == len(a)
      b1 == IF index # l THEN ptr_copy(a.buf, index, index + 1, l - index - 1) ELSE a.buf
      b2 == ptr_write(b1, index, element)
  IN set_len([a EXCEPT !.buf = b2], l + 1)

insert_unchecked(a, index, element) ==
  LET l == len(a)
      b1 == IF index # l THEN ptr_copy(a.buf, index, index + 1, l - index) ELSE a.buf
      b2 == ptr_write(b1, index, element)
  IN set_len([a EXCEPT !.buf = b2], l + 1)

\* mutant: the index test rejects the tail position too
insert_checked_rejects_tail(a, index, element) ==
  IF index >= len(a) THEN Eff(a, Err(element), <<>>)
  ELSE IF len(a) + 1 > capacity(a) THEN Eff(a, Err(element), <<>>)
  ELSE Eff(insert_unchecked(a, index, element), Ok, <<>>)

insert_checked(a, index, element) ==
  IF index > len(a) THEN Eff(a, Err(element), <<>>)
  ELSE IF len(a) + 1 > capacity(a) THEN Eff(a, Err(element), <<>>)
  ELSE Eff(insert_unchecked(a, index, element), Ok, <<>>)

\* mutant: the panicking insert reports every failure as a capacity failure
insert_one_message(a, index, element) ==
  LET r == insert_checked(a, index, element) IN
  IF r.ret.kind = "Err"
  THEN Eff(r.arr, Panic("insert exceeds capacity"), <<element>>)
  ELSE Eff(r.arr, Unit, <<>>)

insert(a, index, element) ==
  LET r == insert_checked(a, index, element) IN
  IF r.ret.kind = "Err"
  THEN IF index > len(r.arr)
       THEN Eff(r.arr, Panic("index out of bounds"), <<element>>)
       ELSE Eff(r.arr, Panic("insert exceeds capacity"), <<element>>)
  ELSE Eff(r.arr, Unit, <<>>)

\* mutant: the element is written at the tail and never swapped into place
swap_insert_unchecked_no_swap(a, index, element) ==
  LET l == len(a)
      b1 == ptr_write(a.buf, l, element)
  IN set_len([a EXCEPT !.buf = b1], l + 1)

swap_insert_unchecked(a, index, element) ==
  LET l == len(a)
      b1 == ptr_write(a.buf, l, element)
      b2 == ptr_swap(b1, index, l)
  IN set_len([a EXCEPT !.buf = b2], l + 1)

swap_insert_checked(a, index, element) ==
  IF index > len(a) THEN Eff(a, Err(element), <<>>)
  ELSE IF len(a) + 1 > capacity(a) THEN Eff(a, Err(element), <<>>)
  ELSE Eff(swap_insert_unchecked(a, index, element), Ok, <<>>)

swap_insert(a, index, element) ==
  LET r == swap_insert_checked(a, index, element) IN
  IF r.ret.kind = "Err"
  THEN IF index > len(r.arr)
       THEN Eff(r.arr, Panic("index out of bounds"), <<element>>)
       ELSE Eff(r.arr, Panic("insert exceeds capacity"), <<element>>)
  ELSE Eff(r.arr, Unit, <<>>)

\* mutant: the tail is not shifted down over the removed slot
remove_unchecked_no_shift(a, index) ==
  LET l == len(a)
      old == ptr_read(a.buf, index)
  IN Eff(set_len(a, l - 1), Some(old), <<>>)

\* mutant: the removed value is read only after the tail was shifted over it
remove_unchecked_reads_late(a, index) ==
  LET l == len(a)
      b1 == ptr_copy(a.buf, index + 1, index, l - index - 1)
      old == ptr_read(b1, index)
  IN Eff(set_len([a EXCEPT !.buf = b1], l - 1), Some(old), <<>>)

remove_unchecked(a, index) ==
  LET l == len(a)
      old == ptr_read(a.buf, index)
      b1 == ptr_copy(a.buf, index + 1, index, l - index - 1)
  IN Eff(set_len([a EXCEPT !.buf = b1], l - 1), Some(old), <<>>)

remove_checked(a, index) ==
  IF index >= len(a) THEN Eff(a, None, <<>>) ELSE remove_unchecked(a, index)

remove(a, index) ==
  LET r == remove_checked(a, index) IN
  IF r.ret.kind = "Some" THEN r ELSE Eff(r.arr, Panic("index out of bounds"), <<>>)

\* mutant: the last element is not moved into the hole
swap_remove_unchecked_no_move(a, index) ==
  LET l == len(a)
      old == ptr_read(a.buf, index)
  IN Eff(set_len(a, l - 1), Some(old), <<>>)

swap_remove_unchecked(a, index) ==
  LET l == len(a)
      old == ptr_read(a.buf, index)
      b1 == ptr_copy(a.buf, l - 1, index, 1)
  IN Eff(set_len([a EXCEPT !.buf = b1], l - 1), Some(old), <<>>)

swap_remove_checked(a, index) ==
  IF index >= len(a) THEN Eff(a, None, <<>>) ELSE swap_remove_unchecked(a, index)

swap_remove(a, index) ==
  LET r == swap_remove_checked(a, index) IN
  IF r.ret.kind = "Some" THEN r ELSE Eff(r.arr, Panic("index out of bounds"), <<>>)

\* mutant: the rejected item is forgotten instead of dropped with the Err
RECURSIVE extend_forgets_rejected(_, _)
extend_forgets_rejected(a, items) ==
  IF items = <<>> THEN [arr |-> a, dropped |-> <<>>, rest |-> <<>>]
  ELSE LET r == push_checked(a, Head(items)) IN
       IF r.ret.kind = "Err"
       THEN [arr |-> r.arr, dropped |-> <<>>, rest |-> Tail(items)]
       ELSE extend_forgets_rejected(r.arr, Tail(items))

\* impl Extend<T> for Array: push_checked each item until one is rejected.
\* `items` is what the iterator would yield.  The rejected item is dropped
\* with the Err temporary; `rest` is what is left in the iterator at break.
RECURSIVE extend(_, _)
extend(a, items) ==
  IF items = <<>> THEN [arr |-> a, dropped |-> <<>>, rest |-> <<>>]
  ELSE LET r == push_checked(a, Head(items)) IN
       IF r.ret.kind = "Err"
       THEN [arr |-> r.arr, dropped |-> <<Head(items)>>, rest |-> Tail(items)]
       ELSE extend(r.arr, Tail(items))

\* impl FromIterator<T> for Array: a new Array extended with the iterator
from_iter(items) == extend(Array_new, items)

\* mutant: dropping the Array destroys nothing
Array_drop_forgets(a) == Eff(a, Unit, <<>>)

\* impl Drop for Array
Array_drop(a) == clear(a)

(***************************************************************************)
(* array::IntoIter<N, T>: struct { inner, cur, end }                       *)
(***************************************************************************)
into_iter(a) == [inner |-> a.buf, cur |-> 0, end |-> a.len]

IntoIter_next(it) ==
  IF it.cur = it.end THEN [it |-> it, ret |-> None]
  ELSE [it |-> [it EXCEPT !.cur = it.cur + 1], ret |-> Some(it.inner[it.cur])]

IntoIter_next_back(it) ==
  IF it.cur = it.end THEN [it |-> it, ret |-> None]
  ELSE [it |-> [it EXCEPT !.end = it.end - 1], ret |-> Some(it.inner[it.end - 1])]

\* mutant: dropping the iterator destroys every slot below end, yielded or not
IntoIter_drop_from_start(it) == [i \in 1..it.end |-> it.inner[i - 1]]

\* impl Drop for IntoIter: the values not yet yielded, cur..end
IntoIter_drop(it) == [i \in 1..(it.end - it.cur) |-> it.inner[it.cur + i - 1]]

(***************************************************************************)
(* std::vec::Vec<T>, as SwitchVec uses it: the elements and the capacity.  *)
(* An allocation attempt succeeds or fails as the allocator decides: `ok`. *)
(* A result carries `allocs`, the outcomes of the attempts actually made.  *)
(***************************************************************************)
Vec_new == [elems |-> <<>>, cap |-> 0]
Vec_len(v) == Len(v.elems)

\* RawVec::grow_amortized: at least double, at least 4 slots (the minimum
\* non-zero capacity for elements of 2..1024 bytes)
grow_amortized(cap, required) == Max(4, Max(cap * 2, required))

\* try_reserve_exact and try_reserve fail with CapacityOverflow, before any
\* allocation is attempted, when len + additional overflows usize or the new
\* capacity exceeds isize::MAX bytes (elements taken as one byte wide)
Vec_try_reserve_exact(v, additional, ok) ==
  IF additional <= v.cap - Vec_len(v) THEN [vec |-> v, ok |-> TRUE, allocs |-> <<>>]
  ELSE IF Vec_len(v) + additional > IsizeMax THEN [vec |-> v, ok |-> FALSE, allocs |-> <<>>]
  ELSE IF ok THEN [vec |-> [v EXCEPT !.cap = Vec_len(v) + additional], ok |-> TRUE, allocs |-> <<TRUE>>]
  ELSE [vec |-> v, ok |-> FALSE, allocs |-> <<FALSE>>]

Vec_try_reserve(v, additional, ok) ==
  IF additional <= v.cap - Vec_len(v) THEN [vec |-> v, ok |-> TRUE, allocs |-> <<>>]
  ELSE IF \/ Vec_len(v) + additional > UsizeMax
          \/ grow_amortized(v.cap, Vec_len(v) + additional) > IsizeMax
       THEN [vec |-> v, ok |-> FALSE, allocs |-> <<>>]
  ELSE IF ok
       THEN [vec |-> [v EXCEPT !.cap = grow_amortized(v.cap, Vec_len(v) + additional)],
             ok |-> TRUE, allocs |-> <<TRUE>>]
  ELSE [vec |-> v, ok |-> FALSE, allocs |-> <<FALSE>>]

\* Vec::push grows when full (never needed after a successful reserve)
Vec_push(v, value) ==
  [elems |-> Append(v.elems, value),
   cap |-> IF Vec_len(v) = v.cap THEN grow_amortized(v.cap, Vec_len(v) + 1) ELSE v.cap]

Seq_insert(s, index, x) ==
  [i \in 1..(Len(s) + 1) |-> IF i <= index THEN s[i] ELSE IF i = index + 1 THEN x ELSE s[i - 1]]
Seq_remove(s, index) ==
  [i \in 1..(Len(s) - 1) |-> IF i <= index THEN s[i] ELSE s[i + 1]]
Seq_swap_remove(s, index) ==
  [i \in 1..(Len(s) - 1) |-> IF i = index + 1 THEN s[Len(s)] ELSE s[i]]

Vec_pop(v) ==
  IF v.elems = <<>> THEN [vec |-> v, ret |-> None]
  ELSE [vec |-> [v EXCEPT !.elems = SubSeq(v.elems, 1, Len(v.elems) - 1)],
        ret |-> Some(v.elems[Len(v.elems)])]

Vec_insert(v, index, element) ==
  IF index > Vec_len(v) THEN [vec |-> v, ret |-> Panic("insertion index out of bounds"), dropped |-> <<element>>]
  ELSE [vec |-> [elems |-> Seq_insert(v.elems, index, element),
                 cap |-> IF Vec_len(v) = v.cap THEN grow_amortized(v.cap, Vec_len(v) + 1) ELSE v.cap],
        ret |-> Unit, dropped |-> <<>>]

Vec_remove(v, index) ==
  IF index >= Vec_len(v) THEN [vec |-> v, ret |-> Panic("removal index out of bounds")]
  ELSE [vec |-> [v EXCEPT !.elems = Seq_remove(v.elems, index)], ret |-> Some(v.elems[index + 1])]

\* mutant: the heap-backed swap_remove closes the gap by shifting, like remove
Vec_swap_remove_shifts(v, index) ==
  IF index >= Vec_len(v) THEN [vec |-> v, ret |-> Panic("swap_remove index out of bounds")]
  ELSE [vec |-> [v EXCEPT !.elems = Seq_remove(v.elems, index)], ret |-> Some(v.elems[index + 1])]

Vec_swap_remove(v, index) ==
  IF index >= Vec_len(v) THEN [vec |-> v, ret |-> Panic("swap_remove index out of bounds")]
  ELSE [vec |-> [v EXCEPT !.elems = Seq_swap_remove(v.elems, index)], ret |-> Some(v.elems[index + 1])]

\* vec.extend(array): take from the array's IntoIter until it is exhausted
RECURSIVE Vec_extend(_, _)
Vec_extend(v, it) ==
  LET r == IntoIter_next(it) IN
  IF r.ret.kind = "None" THEN [vec |-> v, it |-> r.it]
  ELSE Vec_extend(Vec_push(v, r.ret.val), r.it)

(***************************************************************************)
(* SwitchVec<N, T>: struct { inner: Inner::Stack(Array) | Inner::Heap(Vec) }*)
(* The payload of the inactive variant does not exist; it is kept at its   *)
(* empty value.                                                            *)
(***************************************************************************)
Stack(a) == [tag |-> "Stack", array |-> a, vec |-> Vec_new]
Heap(v) == [tag |-> "Heap", array |-> Array_new, vec |-> v]
SwitchVec_new == Stack(Array_new)

is_heap(s) == s.tag = "Heap"
SwitchVec_len(s) == IF s.tag = "Stack" THEN len(s.array) ELSE Vec_len(s.vec)
SwitchVec_capacity(s) == IF s.tag = "Stack" THEN capacity(s.array) ELSE s.vec.cap
SwitchVec_as_slice(s) == IF s.tag = "Stack" THEN as_slice(s.array) ELSE s.vec.elems

\* an operation's effect: the container after it, what it returns, the values
\* it destroyed (in order), the outcomes of the allocation attempts it made,
\* the values it moved from one storage to the other (in order), and the
\* number of heap buffers it gave back to the allocator
SEff(s, ret, dropped, allocs, moved) ==
  [inner |-> s, ret |-> ret, dropped |-> dropped, allocs |-> allocs, moved |-> moved,
   freed |-> 0]

\* a Vec that goes away (dropped, or drained by its consuming iterator)
\* destroys the elements it still holds and gives its buffer back, when it
\* has one: a Vec of capacity 0 never allocated
Vec_drop(v) == [dropped |-> v.elems, freed |-> IF v.cap > 0 THEN 1 ELSE 0]

\* the heap buffers a call acquires: a successful allocation by a Vec that has
\* no buffer yet is a new buffer, a later one regrows the buffer it has
Acquired(s, allocs) ==
  IF s.tag = "Heap" /\ s.vec.cap > 0 THEN 0
  ELSE IF \E i \in DOMAIN allocs : allocs[i] THEN 1 ELSE 0

\* mutant: clearing a heap-backed container falls back to the inline storage
SwitchVec_clear_resets(s) ==
  IF s.tag = "Stack"
  THEN LET e == clear(s.array) IN SEff(Stack(e.arr), Unit, e.dropped, <<>>, <<>>)
  ELSE SEff(Stack(Array_new), Unit, s.vec.elems, <<>>, <<>>)

SwitchVec_clear(s) ==
  IF s.tag = "Stack"
  THEN LET e == clear(s.array) IN SEff(Stack(e.arr), Unit, e.dropped, <<>>, <<>>)
  ELSE SEff(Heap([s.vec EXCEPT !.elems = <<>>]), Unit, s.vec.elems, <<>>, <<>>)

\* mutant: the array is read out and inner overwritten before the allocation is
\* known to have succeeded
switch_heap_moves_first(s, ok) ==
  IF s.tag = "Heap" THEN SEff(s, True, <<>>, <<>>, <<>>)
  ELSE LET r == Vec_try_reserve_exact(Vec_new, len(s.array), ok) IN
       IF ~r.ok THEN SEff(Heap(Vec_new), False, as_slice(s.array), r.allocs, <<>>)
       ELSE LET e == Vec_extend(r.vec, into_iter(s.array))
            IN SEff(Heap(e.vec), True, IntoIter_drop(e.it), r.allocs, e.vec.elems)

\* mutant: the elements are copied to the heap and the old array is dropped too
switch_heap_drops_array(s, ok) ==
  IF s.tag = "Heap" THEN SEff(s, True, <<>>, <<>>, <<>>)
  ELSE LET r == Vec_try_reserve_exact(Vec_new, len(s.array), ok) IN
       IF ~r.ok THEN SEff(s, False, <<>>, r.allocs, <<>>)
       ELSE LET e == Vec_extend(r.vec, into_iter(s.array))
            IN SEff(Heap(e.vec), True, Array_drop(s.array).dropped, r.allocs, e.vec.elems)

\* mutant: a container already on the heap reports failure
switch_heap_heap_is_failure(s, ok) ==
  IF s.tag = "Heap" THEN SEff(s, False, <<>>, <<>>, <<>>)
  ELSE LET r == Vec_try_reserve_exact(Vec_new, len(s.array), ok) IN
       IF ~r.ok THEN SEff(s, False, <<>>, r.allocs, <<>>)
       ELSE LET e == Vec_extend(r.vec, into_iter(s.array))
            IN SEff(Heap(e.vec), True, IntoIter_drop(e.it), r.allocs, e.vec.elems)

switch_heap(s, ok) ==
  IF s.tag = "Heap" THEN SEff(s, True, <<>>, <<>>, <<>>)
  ELSE LET r == Vec_try_reserve_exact(Vec_new, len(s.array), ok) IN
       IF ~r.ok THEN SEff(s, False, <<>>, r.allocs, <<>>)
       ELSE \* the array is read out, inner becomes Heap(vec), vec.extend(array)
            LET e == Vec_extend(r.vec, into_iter(s.array))
            IN SEff(Heap(e.vec), True, IntoIter_drop(e.it), r.allocs, e.vec.elems)

\* mutant: the elements that do not fit are forgotten, not destroyed
switch_stack_forgets_rest(s) ==
  IF s.tag = "Stack" THEN SEff(s, True, <<>>, <<>>, <<>>)
  ELSE LET e == extend(Array_new, s.vec.elems)
       IN SEff(Stack(e.arr), True, e.dropped, <<>>, as_slice(e.arr))

\* mutant: the vec read out of inner is drained and then forgotten
switch_stack_forgets_vec(s) ==
  IF s.tag = "Stack" THEN SEff(s, True, <<>>, <<>>, <<>>)
  ELSE LET e == extend(Array_new, s.vec.elems)
       IN SEff(Stack(e.arr), True, e.dropped \o e.rest, <<>>, as_slice(e.arr))

switch_stack(s) ==
  IF s.tag = "Stack" THEN SEff(s, True, <<>>, <<>>, <<>>)
  ELSE \* the vec is read out, inner becomes Stack(Array::new()), array.extend(vec);
       \* the vec's IntoIter then drops what it still holds and frees the buffer
       LET e == extend(Array_new, s.vec.elems)
       IN [SEff(Stack(e.arr), True, e.dropped \o e.rest, <<>>, as_slice(e.arr))
             EXCEPT !.freed = Vec_drop(s.vec).freed]

\* mutant: the inline capacity test is strict, the migration comes one element early
reserve_strict(s, additional, ok1, ok2, checks) ==
  IF s.tag = "Stack"
  THEN IF checks /\ len(s.array) + additional > UsizeMax
       THEN SEff(s, Panic("attempt to add with overflow"), <<>>, <<>>, <<>>)
       ELSE IF (len(s.array) + additional) % 2^WordBits < capacity(s.array)
       THEN SEff(s, True, <<>>, <<>>, <<>>)
       ELSE LET h == switch_heap(s, ok1) IN
            IF h.ret = False THEN SEff(h.inner, False, h.dropped, h.allocs, h.moved)
            ELSE LET r == Vec_try_reserve(h.inner.vec, additional, ok2)
                 IN SEff(Heap(r.vec), IF r.ok THEN True ELSE False,
                         h.dropped, h.allocs \o r.allocs, h.moved)
  ELSE LET r == Vec_try_reserve(s.vec, additional, ok1)
       IN SEff(Heap(r.vec), IF r.ok THEN True ELSE False, <<>>, r.allocs, <<>>)

\* `checks` is the build's overflow-checks setting: with it the addition
\* len + additional panics on overflow, without it the sum wraps modulo 2^WordBits
reserve(s, additional, ok1, ok2, checks) ==
  IF s.tag = "Stack"
  THEN IF checks /\ len(s.array) + additional > UsizeMax
       THEN SEff(s, Panic("attempt to add with overflow"), <<>>, <<>>, <<>>)
       ELSE IF (len(s.array) + additional) % 2^WordBits <= capacity(s.array)
       THEN SEff(s, True, <<>>, <<>>, <<>>)
       ELSE LET h == switch_heap(s, ok1) IN
            IF h.ret = False THEN SEff(h.inner, False, h.dropped, h.allocs, h.moved)
            ELSE LET r == Vec_try_reserve(h.inner.vec, additional, ok2)
                 IN SEff(Heap(r.vec), IF r.ok THEN True ELSE False,
                         h.dropped, h.allocs \o r.allocs, h.moved)
  ELSE LET r == Vec_try_reserve(s.vec, additional, ok1)
       IN SEff(Heap(r.vec), IF r.ok THEN True ELSE False, <<>>, r.allocs, <<>>)

\* push and insert reserve one slot: len + 1 <= N + 1 cannot overflow, so the
\* overflow-checks setting makes no difference to them

\* mutant: the infallible push, which discards the value when reserve fails
SwitchVec_push_infallible(s, value, ok1, ok2) ==
  LET r == reserve(s, 1, ok1, ok2, TRUE) IN
  IF r.ret = False THEN SEff(r.inner, Ok, r.dropped \o <<value>>, r.allocs, r.moved)
  ELSE IF r.inner.tag = "Stack"
       THEN LET e == push(r.inner.array, value)
            IN SEff(Stack(e.arr), IF e.ret.kind = "Panic" THEN e.ret ELSE Ok,
                    r.dropped \o e.dropped, r.allocs, r.moved)
       ELSE SEff(Heap(Vec_push(r.inner.vec, value)), Ok, r.dropped, r.allocs, r.moved)

SwitchVec_push(s, value, ok1, ok2) ==
  LET r == reserve(s, 1, ok1, ok2, TRUE) IN
  IF r.ret = False THEN SEff(r.inner, Err(value), r.dropped, r.allocs, r.moved)
  ELSE IF r.inner.tag = "Stack"
       THEN LET e == push(r.inner.array, value)
            IN SEff(Stack(e.arr), IF e.ret.kind = "Panic" THEN e.ret ELSE Ok,
                    r.dropped \o e.dropped, r.allocs, r.moved)
       ELSE SEff(Heap(Vec_push(r.inner.vec, value)), Ok, r.dropped, r.allocs, r.moved)

\* impl Extend<T> for SwitchVec: push each item until a push fails. `oks`
\* gives, item by item, the outcomes of the two allocations a push can attempt.
\* The rejected item is dropped with the Err; `rest` was never taken
RECURSIVE SwitchVec_extend(_, _, _)
SwitchVec_extend(s, items, oks) ==
  IF items = <<>> THEN [inner |-> s, dropped |-> <<>>, rest |-> <<>>, allocs |-> <<>>]
  ELSE LET e == SwitchVec_push(s, Head(items), Head(oks)[1], Head(oks)[2]) IN
       IF e.ret # Ok
       THEN [inner |-> e.inner, dropped |-> <<Head(items)>>, rest |-> Tail(items),
             allocs |-> e.allocs]
       ELSE LET x == SwitchVec_extend(e.inner, Tail(items), Tail(oks))
            IN [x EXCEPT !.allocs = e.allocs \o @]

\* impl FromIterator<T> for SwitchVec: a new container extended with the iterator
SwitchVec_from_iter(items, oks) == SwitchVec_extend(SwitchVec_new, items, oks)

\* T::clone of an element: a new value with the same payload
CloneOf(v) == v + 2 * MaxVals

\* impl Clone for SwitchVec: self.iter().cloned().collect()
SwitchVec_clone(s, oks) ==
  SwitchVec_from_iter([i \in 1..SwitchVec_len(s) |-> CloneOf(SwitchVec_as_slice(s)[i])], oks)

SwitchVec_pop(s) ==
  IF s.tag = "Stack"
  THEN LET e == pop(s.array) IN SEff(Stack(e.arr), e.ret, e.dropped, <<>>, <<>>)
  ELSE LET e == Vec_pop(s.vec) IN SEff(Heap(e.vec), e.ret, <<>>, <<>>, <<>>)

SwitchVec_insert(s, index, element, ok1, ok2) ==
  LET r == reserve(s, 1, ok1, ok2, TRUE) IN
  IF r.ret = False THEN SEff(r.inner, Err(element), r.dropped, r.allocs, r.moved)
  ELSE IF r.inner.tag = "Stack"
       THEN LET e == insert(r.inner.array, index, element)
            IN SEff(Stack(e.arr), IF e.ret.kind = "Panic" THEN e.ret ELSE Ok,
                    r.dropped \o e.dropped, r.allocs, r.moved)
       ELSE LET e == Vec_insert(r.inner.vec, index, element)
            IN SEff(Heap(e.vec), IF e.ret.kind = "Panic" THEN e.ret ELSE Ok,
                    r.dropped \o e.dropped, r.allocs, r.moved)

\* mutant: the bounds test before the delegation is missing
SwitchVec_remove_unguarded(s, index) ==
  IF s.tag = "Stack"
  THEN LET e == remove(s.array, index) IN SEff(Stack(e.arr), e.ret, e.dropped, <<>>, <<>>)
  ELSE LET e == Vec_remove(s.vec, index) IN SEff(Heap(e.vec), e.ret, <<>>, <<>>, <<>>)

SwitchVec_remove(s, index) ==
  IF index >= SwitchVec_len(s) THEN SEff(s, None, <<>>, <<>>, <<>>)
  ELSE IF s.tag = "Stack"
       THEN LET e == remove(s.array, index) IN SEff(Stack(e.arr), e.ret, e.dropped, <<>>, <<>>)
       ELSE LET e == Vec_remove(s.vec, index) IN SEff(Heap(e.vec), e.ret, <<>>, <<>>, <<>>)

SwitchVec_swap_remove(s, index) ==
  IF index >= SwitchVec_len(s) THEN SEff(s, None, <<>>, <<>>, <<>>)
  ELSE IF s.tag = "Stack"
       THEN LET e == swap_remove(s.array, index) IN SEff(Stack(e.arr), e.ret, e.dropped, <<>>, <<>>)
       ELSE LET e == Vec_swap_remove(s.vec, index) IN SEff(Heap(e.vec), e.ret, <<>>, <<>>, <<>>)

\* dropping the SwitchVec drops the active variant: Array::drop or Vec's drop
SwitchVec_drop(s) ==
  IF s.tag = "Stack"
  THEN LET e == Array_drop(s.array) IN SEff(Stack(e.arr), Unit, e.dropped, <<>>, <<>>)
  ELSE [SEff(Heap(Vec_new), Unit, Vec_drop(s.vec).dropped, <<>>, <<>>)
          EXCEPT !.freed = Vec_drop(s.vec).freed]

\* from_array(array): the Array becomes the inline storage
from_array(a) == Stack(a)

\* The build without the std feature: Inner has the Stack variant only, and
\* reserve is `_ = additional; false`
reserve_no_std(s, additional) == SEff(s, False, <<>>, <<>>, <<>>)

\* push as compiled without std: the same body over reserve's no_std branch
SwitchVec_push_no_std(s, value) ==
  LET r == reserve_no_std(s, 1) IN
  IF r.ret = False THEN SEff(r.inner, Err(value), r.dropped, r.allocs, r.moved)
  ELSE LET e == push(r.inner.array, value)
       IN SEff(Stack(e.arr), IF e.ret.kind = "Panic" THEN e.ret ELSE Ok,
               r.dropped \o e.dropped, r.allocs, r.moved)

\* into_vec(self) and into_array(self): Ok(storage) when the variant matches,
\* Err(self) otherwise.  `self` is the container handed back in Err.
ErrSelf == R("ErrSelf", 0)
OkVec == R("OkVec", 0)
OkArray == R("OkArray", 0)

\* mutant: the container handed back in Err is a new, empty one
into_vec_resets(s) ==
  IF s.tag = "Stack" THEN [ret |-> ErrSelf, self |-> SwitchVec_new, vec |-> Vec_new, dropped |-> <<>>]
  ELSE [ret |-> OkVec, self |-> SwitchVec_new, vec |-> s.vec, dropped |-> <<>>]

into_vec(s) ==
  IF s.tag = "Stack" THEN [ret |-> ErrSelf, self |-> s, vec |-> Vec_new, dropped |-> <<>>]
  ELSE [ret |-> OkVec, self |-> SwitchVec_new, vec |-> s.vec, dropped |-> <<>>]

into_array(s) ==
  IF s.tag = "Stack" THEN [ret |-> OkArray, self |-> SwitchVec_new, arr |-> s.array, dropped |-> <<>>]
  ELSE [ret |-> ErrSelf, self |-> s, arr |-> Array_new, dropped |-> <<>>]

(***************************************************************************)
(* Equality.  T: PartialEq compares the payloads of two values; a value's  *)
(* identity is not its payload, two values can be equal.                   *)
(***************************************************************************)
Val(v) == v % 2

\* <[T] as PartialEq>::eq: the lengths, then element by element
slice_eq(x, y) ==
  IF Len(x) # Len(y) THEN FALSE
  ELSE \A i \in 1..Len(x) : Val(x[i]) = Val(y[i])

Array_eq(a, b) == slice_eq(as_slice(a), as_slice(b))

\* mutant: containers in different representations never compare equal
SwitchVec_eq_same_variant(s, t) ==
  s.tag = t.tag /\ slice_eq(SwitchVec_as_slice(s), SwitchVec_as_slice(t))

SwitchVec_eq(s, t) == slice_eq(SwitchVec_as_slice(s), SwitchVec_as_slice(t))

(***************************************************************************)
(* The state: one container, built and used by a caller, then dropped.     *)
(***************************************************************************)
VARIABLES
  obj,     \* what the caller holds: "none", "Array", "IntoIter", "SwitchVec", "Vec", "dropped"
  array,   \* the Array, when obj = "Array"
  iter,    \* the consuming iterator of the Array, when obj = "IntoIter"
  vec,     \* the Vec taken out of a SwitchVec, when obj = "Vec"
  other,   \* a second container, which the caller compares the first one with
  pc,      \* where the caller is inside a call taken statement by statement
  bufs,    \* the heap buffers acquired and not yet given back to the allocator
  inner,   \* SwitchVec.inner, when obj = "SwitchVec"
  nextId,  \* the next value the caller creates
  drops,   \* drops[v]: how many times the library ran v's destructor
  given,   \* given[v]: how many times v was handed back to the caller
  ref,     \* a reference unbounded sequence put through the same operations
  inSync,  \* FALSE once the reference cannot follow (capacity exceeded, allocation failed)
  last     \* the last call: its arguments, its result and the state before it

vars == <<obj, array, iter, vec, other, pc, bufs, inner, nextId, drops, given, ref, inSync, last>>

\* what an iterator has yet to yield: the slots cur..end, in index order
Remaining(it) == [i \in 1..(it.end - it.cur) |-> it.inner[it.cur + i - 1]]

Content ==
  IF obj = "Array" THEN as_slice(array)
  ELSE IF obj = "IntoIter" THEN Remaining(iter)
  ELSE IF obj = "SwitchVec" THEN SwitchVec_as_slice(inner)
  ELSE IF obj = "Vec" THEN vec.elems
  ELSE <<>>

IsHeap == obj = "SwitchVec" /\ is_heap(inner)

\* what a remove remembers of the call before it, when that call was a
\* successful insert into the same Array
NoInsert == [set |-> FALSE, idx |-> 0, val |-> 0, pre |-> <<>>]
JustInserted(op) ==
  IF /\ obj = "Array"
     /\ op \in {"remove", "remove_checked"}
     /\ \/ last.op = "insert" /\ last.ret = Unit
        \/ last.op = "insert_checked" /\ last.ret = Ok
  THEN [set |-> TRUE, idx |-> last.idx, val |-> last.val, pre |-> last.pre]
  ELSE NoInsert

Call(op, idx, val, ret, dropped, allocs, moved, refRet) ==
  [op |-> op, idx |-> idx, val |-> val, ret |-> ret,
   pre |-> Content, preHeap |-> IsHeap,
   preCap |-> IF obj = "SwitchVec" THEN SwitchVec_capacity(inner) ELSE N,
   dropped |-> dropped, allocs |-> allocs, moved |-> moved, refRet |-> refRet,
   inserted |-> JustInserted(op), oob |-> <<>>]

Count(v, s) == Cardinality({i \in DOMAIN s : s[i] = v})

\* book-keeping of the values: destroyed by the library, handed to the caller
Account(ret, dropped, used) ==
  /\ drops' = [v \in Ids |-> drops[v] + Count(v, dropped)]
  /\ given' = IF ret.kind \in {"Some", "Err"} THEN [given EXCEPT ![ret.val] = @ + 1] ELSE given
  /\ nextId' = nextId + used

\* the reference follows while `sync` holds: the call is one the reference can
\* make too (its length stays within N for an Array, the allocations succeed)
Follow(refNext, sync) ==
  /\ inSync' = (inSync /\ sync)
  /\ ref' = IF inSync /\ sync THEN refNext ELSE <<>>

\* no second container
NoOther == [kind |-> "none", array |-> Array_new, inner |-> SwitchVec_new, items |-> <<>>]

\* the values of the second container: not the first one's, with both payloads
OtherIds == {MaxVals + 1, MaxVals + 2}
OtherItems == UNION {[1..k -> OtherIds] : k \in 0..N}
\* the second container's const parameter M: below, at and above N
OtherCaps == {N - 1, N, N + 1}

\* Array::<M, T>::from_parts(items)
OtherArray(M, items) ==
  [buf |-> [i \in 0..(M - 1) |-> IF i < Len(items) THEN items[i + 1] ELSE Uninit],
   len |-> Len(items)]

\* the second containers: an Array<M>, an inline SwitchVec<M> (from_array), a
\* heap-backed SwitchVec<M> (from_vec); `items` is what each was built from
Others ==
  {[kind |-> "Array", array |-> OtherArray(M, items), inner |-> SwitchVec_new, items |-> items] :
     <<M, items>> \in {p \in OtherCaps \X OtherItems : Len(p[2]) <= p[1]}}
  \cup
  {[kind |-> "SwitchVec", array |-> Array_new, items |-> items,
    inner |-> [tag |-> "Stack", array |-> OtherArray(M, items), vec |-> Vec_new]] :
     <<M, items>> \in {p \in OtherCaps \X OtherItems : Len(p[2]) <= p[1]}}
  \cup
  {[kind |-> "SwitchVec", array |-> Array_new, items |-> items,
    inner |-> Heap([elems |-> items, cap |-> Len(items)])] : items \in OtherItems}

\* between calls; `entry` is the Array as the call taken last found it
Idle == [step |-> 0, entry |-> Array_new]

Init ==
  /\ other = NoOther
  /\ pc = Idle
  /\ bufs = 0
  /\ obj = "none"
  /\ array = Array_new
  /\ iter = into_iter(Array_new)
  /\ vec = Vec_new
  /\ inner = SwitchVec_new
  /\ nextId = 1
  /\ drops = [v \in Ids |-> 0]
  /\ given = [v \in Ids |-> 0]
  /\ ref = <<>>
  /\ inSync = TRUE
  /\ last = Call("none", 0, 0, Unit, <<>>, <<>>, <<>>, Unit)

(***************************************************************************)
(* The caller's calls on an Array                                          *)
(***************************************************************************)
ArrayStep(op, idx, val, e, used, refNext, refRet, sync) ==
  /\ obj = "Array"
  /\ array' = e.arr
  /\ Account(e.ret, e.dropped, used)
  /\ Follow(refNext, sync)
  /\ last' = Call(op, idx, val, e.ret, e.dropped, <<>>, <<>>, refRet)
  /\ UNCHANGED <<obj, iter, vec, inner, other, pc, bufs>>

DoArrayNew ==
  /\ obj = "none"
  /\ obj' = "Array"
  /\ array' = Array_new
  /\ Follow(<<>>, TRUE)
  /\ last' = Call("new", 0, 0, Unit, <<>>, <<>>, <<>>, Unit)
  /\ UNCHANGED <<iter, vec, inner, nextId, drops, given, other, pc, bufs>>

DoFromParts ==
  \E M \in 0..(N + 1) :
    /\ obj = "none"
    /\ nextId + M - 1 <= MaxVals
    /\ LET items == Fresh(nextId, M)
           e == from_parts(items)
       IN /\ obj' = IF e.ret.kind = "Panic" THEN "none" ELSE "Array"
          /\ array' = e.arr
          /\ Account(e.ret, e.dropped, M)
          /\ Follow(items, M <= N)
          /\ last' = Call("from_parts", M, 0, e.ret, e.dropped, <<>>, <<>>, Unit)
    /\ UNCHANGED <<iter, vec, inner, other, pc, bufs>>

DoPushChecked ==
  /\ nextId <= MaxVals
  /\ LET e == push_checked(array, nextId)
     IN ArrayStep("push_checked", 0, nextId, e, 1, Append(ref, nextId), Ok, Len(ref) < N)

DoPush ==
  /\ nextId <= MaxVals
  /\ LET e == push(array, nextId)
     IN ArrayStep("push", 0, nextId, e, 1, Append(ref, nextId), Unit, Len(ref) < N)

DoPop ==
  /\ obj = "Array"
  /\ ArrayStep("pop", 0, 0, pop(array), 0,
               IF ref = <<>> THEN ref ELSE SubSeq(ref, 1, Len(ref) - 1),
               IF ref = <<>> THEN None ELSE Some(ref[Len(ref)]), TRUE)

\* the reference's insert: a Vec takes any index <= len
RefInsert(i, v) == IF i <= Len(ref) THEN Seq_insert(ref, i, v) ELSE ref
RefRemove(i) == IF i < Len(ref) THEN Seq_remove(ref, i) ELSE ref
RefSwapRemove(i) == IF i < Len(ref) THEN Seq_swap_remove(ref, i) ELSE ref
RefAt(i) == IF i < Len(ref) THEN Some(ref[i + 1]) ELSE None
\* a swapping insert on a sequence: v at i, the value that was at i at the end
RefSwapInsert(i, v) ==
  IF i < Len(ref)
  THEN [k \in 1..(Len(ref) + 1) |->
          IF k = i + 1 THEN v ELSE IF k = Len(ref) + 1 THEN ref[i + 1] ELSE ref[k]]
  ELSE IF i = Len(ref) THEN Append(ref, v) ELSE ref

DoInsertChecked ==
  \E index \in 0..(len(array) + 1) :
    /\ nextId <= MaxVals
    /\ LET e == insert_checked(array, index, nextId)
       IN ArrayStep("insert_checked", index, nextId, e, 1, RefInsert(index, nextId), Ok,
                    Len(ref) < N \/ index > Len(ref))

DoInsert ==
  \E index \in 0..(len(array) + 1) :
    /\ nextId <= MaxVals
    /\ LET e == insert(array, index, nextId)
       IN ArrayStep("insert", index, nextId, e, 1, RefInsert(index, nextId), Unit,
                    Len(ref) < N \/ index > Len(ref))

DoSwapInsertChecked ==
  \E index \in 0..(len(array) + 1) :
    /\ nextId <= MaxVals
    /\ LET e == swap_insert_checked(array, index, nextId)
       IN ArrayStep("swap_insert_checked", index, nextId, e, 1, RefSwapInsert(index, nextId), Ok,
                    Len(ref) < N \/ index > Len(ref))

DoSwapInsert ==
  \E index \in 0..(len(array) + 1) :
    /\ nextId <= MaxVals
    /\ LET e == swap_insert(array, index, nextId)
       IN ArrayStep("swap_insert", index, nextId, e, 1, RefSwapInsert(index, nextId), Unit,
                    Len(ref) < N \/ index > Len(ref))

DoRemoveChecked ==
  \E index \in 0..(len(array) + 1) :
    ArrayStep("remove_checked", index, 0, remove_checked(array, index), 0,
              RefRemove(index), RefAt(index), TRUE)

DoRemove ==
  \E index \in 0..(len(array) + 1) :
    ArrayStep("remove", index, 0, remove(array, index), 0,
              RefRemove(index), RefAt(index), TRUE)

DoSwapRemoveChecked ==
  \E index \in 0..(len(array) + 1) :
    ArrayStep("swap_remove_checked", index, 0, swap_remove_checked(array, index), 0,
              RefSwapRemove(index), RefAt(index), TRUE)

DoSwapRemove ==
  \E index \in 0..(len(array) + 1) :
    ArrayStep("swap_remove", index, 0, swap_remove(array, index), 0,
              RefSwapRemove(index), RefAt(index), TRUE)

DoClear ==
  /\ obj = "Array"
  /\ ArrayStep("clear", 0, 0, clear(array), 0, <<>>, Unit, TRUE)

\* array.extend(iter) with an iterator of k fresh values; what the iterator
\* still holds at the break is destroyed with the iterator
DoExtend ==
  \E k \in 0..(N + 1) :
    /\ nextId + k - 1 <= MaxVals
    /\ LET items == Fresh(nextId, k)
           x == extend(array, items)
           e == Eff(x.arr, Unit, x.dropped \o x.rest)
       IN ArrayStep("extend", k, 0, e, k, ref \o items, Unit, Len(ref) + k <= N)

DoArrayDrop ==
  /\ obj = "Array"
  /\ LET e == Array_drop(array)
     IN /\ Account(e.ret, e.dropped, 0)
        /\ last' = Call("drop", 0, 0, e.ret, e.dropped, <<>>, <<>>, Unit)
  /\ obj' = "dropped"
  /\ array' = Array_new
  /\ Follow(<<>>, TRUE)
  /\ UNCHANGED <<iter, vec, inner, other, pc, bufs>>

(***************************************************************************)
(* The caller's calls on the consuming iterator of an Array                *)
(***************************************************************************)
IterStep(op, it, ret, dropped, refNext, refRet) ==
  /\ obj = "IntoIter"
  /\ iter' = it
  /\ Account(ret, dropped, 0)
  /\ Follow(refNext, TRUE)
  /\ last' = Call(op, 0, 0, ret, dropped, <<>>, <<>>, refRet)
  /\ UNCHANGED <<array, vec, inner, other, pc, bufs>>

\* array.into_iter(): the buffer is read out of the Array, which is not dropped
DoIntoIter ==
  /\ obj = "Array"
  /\ obj' = "IntoIter"
  /\ iter' = into_iter(array)
  /\ array' = Array_new
  /\ Follow(ref, TRUE)
  /\ last' = Call("into_iter", 0, 0, Unit, <<>>, <<>>, <<>>, Unit)
  /\ UNCHANGED <<vec, inner, nextId, drops, given, other, pc, bufs>>

DoNext ==
  /\ obj = "IntoIter"
  /\ LET r == IntoIter_next(iter)
     IN IterStep("next", r.it, r.ret, <<>>,
                 IF ref = <<>> THEN ref ELSE Tail(ref),
                 IF ref = <<>> THEN None ELSE Some(Head(ref)))
  /\ UNCHANGED obj

DoNextBack ==
  /\ obj = "IntoIter"
  /\ LET r == IntoIter_next_back(iter)
     IN IterStep("next_back", r.it, r.ret, <<>>,
                 IF ref = <<>> THEN ref ELSE SubSeq(ref, 1, Len(ref) - 1),
                 IF ref = <<>> THEN None ELSE Some(ref[Len(ref)]))
  /\ UNCHANGED obj

\* drop(iter): the loop destroys the slots cur..end and leaves cur = end
DoIntoIterDrop ==
  /\ obj = "IntoIter"
  /\ IterStep("iter_drop", [iter EXCEPT !.cur = iter.end], Unit, IntoIter_drop(iter), <<>>, Unit)
  /\ obj' = "dropped"

(***************************************************************************)
(* The caller's calls on a SwitchVec                                       *)
(***************************************************************************)
SwitchStep(op, idx, val, e, used, refNext, refRet, sync) ==
  /\ obj = "SwitchVec"
  /\ inner' = e.inner
  /\ Account(e.ret, e.dropped, used)
  /\ Follow(refNext, sync /\ \A i \in DOMAIN e.allocs : e.allocs[i])
  /\ last' = Call(op, idx, val, e.ret, e.dropped, e.allocs, e.moved, refRet)
  /\ bufs' = bufs + Acquired(inner, e.allocs) - e.freed
  /\ UNCHANGED <<obj, array, iter, vec, other, pc>>

DoSwitchVecNew ==
  /\ obj = "none"
  /\ obj' = "SwitchVec"
  /\ inner' = SwitchVec_new
  /\ Follow(<<>>, TRUE)
  /\ last' = Call("new", 0, 0, Unit, <<>>, <<>>, <<>>, Unit)
  /\ UNCHANGED <<array, iter, vec, nextId, drops, given, other, pc, bufs>>

DoSVPush ==
  /\ obj = "SwitchVec"
  /\ nextId <= MaxVals
  /\ \E e \in {SwitchVec_push(inner, nextId, ok1, ok2) : ok1 \in BOOLEAN, ok2 \in BOOLEAN} :
       SwitchStep("push", 0, nextId, e, 1, Append(ref, nextId), Ok, TRUE)

DoSVPop ==
  /\ obj = "SwitchVec"
  /\ SwitchStep("pop", 0, 0, SwitchVec_pop(inner), 0,
             IF ref = <<>> THEN ref ELSE SubSeq(ref, 1, Len(ref) - 1),
             IF ref = <<>> THEN None ELSE Some(ref[Len(ref)]), TRUE)

DoSVInsert ==
  /\ obj = "SwitchVec"
  /\ nextId <= MaxVals
  /\ \E index \in 0..(SwitchVec_len(inner) + 1) :
       \E e \in {SwitchVec_insert(inner, index, nextId, ok1, ok2) : ok1 \in BOOLEAN, ok2 \in BOOLEAN} :
         SwitchStep("insert", index, nextId, e, 1, RefInsert(index, nextId), Ok, TRUE)

DoSVRemove ==
  \E index \in 0..(SwitchVec_len(inner) + 1) :
    SwitchStep("remove", index, 0, SwitchVec_remove(inner, index), 0,
               RefRemove(index), RefAt(index), TRUE)

DoSVSwapRemove ==
  \E index \in 0..(SwitchVec_len(inner) + 1) :
    SwitchStep("swap_remove", index, 0, SwitchVec_swap_remove(inner, index), 0,
               RefSwapRemove(index), RefAt(index), TRUE)

DoSVClear ==
  /\ obj = "SwitchVec"
  /\ SwitchStep("clear", 0, 0, SwitchVec_clear(inner), 0, <<>>, Unit, TRUE)

DoSwitchHeap ==
  /\ obj = "SwitchVec"
  /\ \E e \in {switch_heap(inner, ok) : ok \in BOOLEAN} :
       SwitchStep("switch_heap", 0, 0, e, 0, ref, Unit, TRUE)

\* the reference sequence truncated as the documented lossy contract says
DoSwitchStack ==
  /\ obj = "SwitchVec"
  /\ SwitchStep("switch_stack", 0, 0, switch_stack(inner), 0,
             IF is_heap(inner) THEN SubSeq(ref, 1, Min(Len(ref), N)) ELSE ref, Unit, TRUE)

DoReserve ==
  /\ obj = "SwitchVec"
  /\ \E additional \in (0..MaxAdd) \cup {UsizeMax - 1, UsizeMax} :
       \E e \in {reserve(inner, additional, ok1, ok2, checks) :
                  ok1 \in BOOLEAN, ok2 \in BOOLEAN, checks \in BOOLEAN} :
         SwitchStep("reserve", additional, 0, e, 0, ref, Unit, TRUE)

DoSwitchVecDrop ==
  /\ obj = "SwitchVec"
  /\ LET e == SwitchVec_drop(inner)
     IN /\ Account(e.ret, e.dropped, 0)
        /\ last' = Call("drop", 0, 0, e.ret, e.dropped, <<>>, <<>>, Unit)
        /\ bufs' = bufs - e.freed
  /\ obj' = "dropped"
  /\ inner' = SwitchVec_new
  /\ Follow(<<>>, TRUE)
  /\ UNCHANGED <<array, iter, vec, other, pc>>

\* self.into_vec(): on Err the caller holds the SwitchVec again, on Ok the Vec
DoIntoVec ==
  /\ obj = "SwitchVec"
  /\ LET e == into_vec(inner)
     IN /\ obj' = IF e.ret = OkVec THEN "Vec" ELSE "SwitchVec"
        /\ inner' = e.self
        /\ vec' = e.vec
        /\ Account(e.ret, e.dropped, 0)
        /\ last' = Call("into_vec", 0, 0, e.ret, e.dropped, <<>>, <<>>, Unit)
  /\ Follow(ref, TRUE)
  /\ UNCHANGED <<array, iter, other, pc, bufs>>

\* self.into_array(): on Err the caller holds the SwitchVec again, on Ok the Array
DoIntoArray ==
  /\ obj = "SwitchVec"
  /\ LET e == into_array(inner)
     IN /\ obj' = IF e.ret = OkArray THEN "Array" ELSE "SwitchVec"
        /\ inner' = e.self
        /\ array' = e.arr
        /\ Account(e.ret, e.dropped, 0)
        /\ last' = Call("into_array", 0, 0, e.ret, e.dropped, <<>>, <<>>, Unit)
  /\ Follow(ref, TRUE)
  /\ UNCHANGED <<iter, vec, other, pc, bufs>>

\* the Vec taken out is dropped: Vec's drop destroys its elements in order
DoVecDrop ==
  /\ obj = "Vec"
  /\ obj' = "dropped"
  /\ vec' = Vec_new
  /\ Account(Unit, Vec_drop(vec).dropped, 0)
  /\ last' = Call("vec_drop", 0, 0, Unit, Vec_drop(vec).dropped, <<>>, <<>>, Unit)
  /\ bufs' = bufs - Vec_drop(vec).freed
  /\ Follow(<<>>, TRUE)
  /\ UNCHANGED <<array, iter, inner, other, pc>>

\* first == other, on two Arrays or two SwitchVecs; both are only borrowed
DoEq ==
  /\ obj \in {"Array", "SwitchVec"}
  /\ other.kind = obj
  /\ LET eq == IF obj = "Array" THEN Array_eq(array, other.array)
               ELSE SwitchVec_eq(inner, other.inner)
     IN last' = Call("eq", 0, 0, IF eq THEN True ELSE False, <<>>, <<>>, <<>>, Unit)
  /\ UNCHANGED <<obj, array, iter, vec, other, inner, nextId, drops, given, ref, inSync, pc, bufs>>

\* SwitchVec::from_array(array): the caller's Array moves into a SwitchVec
DoFromArray ==
  /\ obj = "Array"
  /\ obj' = "SwitchVec"
  /\ inner' = from_array(array)
  /\ array' = Array_new
  /\ Follow(ref, TRUE)
  /\ last' = Call("from_array", 0, 0, Unit, <<>>, <<>>, <<>>, Unit)
  /\ UNCHANGED <<iter, vec, other, nextId, drops, given, pc, bufs>>

\* push and reserve in the build without std
DoNoStdPush ==
  /\ obj = "SwitchVec"
  /\ nextId <= MaxVals
  /\ SwitchStep("push", 0, nextId, SwitchVec_push_no_std(inner, nextId), 1,
                Append(ref, nextId), Ok, Len(ref) < N)

DoNoStdReserve ==
  /\ obj = "SwitchVec"
  /\ \E additional \in 0..MaxAdd :
       SwitchStep("reserve", additional, 0, reserve_no_std(inner, additional), 0, ref, Unit, TRUE)

\* array.pop() on a non-empty Array, one statement of pop_unchecked at a time
PopStep(k, entry, op, ret, refNext) ==
  LET s == pop_unchecked_steps(entry)[k]
  IN /\ obj = "Array"
     /\ array' = s.arr
     /\ given' = [v \in Ids |-> given[v] + Count(v, s.out)]
     /\ Follow(refNext, TRUE)
     /\ last' = Call(op, 0, 0, ret, <<>>, <<>>, <<>>, Unit)
     /\ UNCHANGED <<obj, iter, vec, other, inner, nextId, drops, bufs>>

DoPopFirst ==
  /\ obj = "Array"
  /\ pc.step = 0
  /\ ~is_empty(array)
  /\ PopStep(1, array, "pop: first statement", Unit, ref)
  /\ pc' = [step |-> 1, entry |-> array]

DoPopSecond ==
  /\ obj = "Array"
  /\ pc.step = 1
  /\ LET s == pop_unchecked_steps(pc.entry)
     IN PopStep(2, pc.entry, "pop", Some((s[1].out \o s[2].out)[1]),
                IF ref = <<>> THEN ref ELSE SubSeq(ref, 1, Len(ref) - 1))
  /\ pc' = [step |-> 0, entry |-> pc.entry]

Next ==
  \/ DoArrayNew \/ DoFromParts
  \/ DoPushChecked \/ DoPush \/ DoPop
  \/ DoInsertChecked \/ DoInsert \/ DoSwapInsertChecked \/ DoSwapInsert
  \/ DoRemoveChecked \/ DoRemove \/ DoSwapRemoveChecked \/ DoSwapRemove
  \/ DoClear \/ DoExtend \/ DoArrayDrop
  \/ DoSwitchVecNew
  \/ DoSVPush \/ DoSVPop \/ DoSVInsert \/ DoSVRemove \/ DoSVSwapRemove \/ DoSVClear
  \/ DoSwitchHeap \/ DoSwitchStack \/ DoReserve \/ DoSwitchVecDrop

Spec == Init /\ [][Next]_vars

\* an Array built, filled and thinned out, then consumed through its iterator
IterNext ==
  \/ DoArrayNew \/ DoFromParts
  \/ DoPushChecked \/ DoPop \/ DoRemoveChecked
  \/ DoIntoIter \/ DoNext \/ DoNextBack \/ DoIntoIterDrop

IterSpec == Init /\ [][IterNext]_vars

\* a SwitchVec filled, emptied and moved between its representations, then
\* taken apart into its Vec or its Array, which is used on and dropped
IntoNext ==
  \/ DoSwitchVecNew
  \/ DoSVPush \/ DoSVPop \/ DoSVRemove
  \/ DoSwitchHeap \/ DoSwitchStack \/ DoSwitchVecDrop
  \/ DoIntoVec \/ DoIntoArray \/ DoVecDrop
  \/ DoPushChecked \/ DoPop \/ DoArrayDrop

IntoSpec == Init /\ [][IntoNext]_vars

\* a container built and changed, and compared with a second container that
\* exists from the start
EqInit ==
  /\ other \in Others
  /\ pc = Idle
  /\ bufs = 0
  /\ obj = "none"
  /\ array = Array_new
  /\ iter = into_iter(Array_new)
  /\ vec = Vec_new
  /\ inner = SwitchVec_new
  /\ nextId = 1
  /\ drops = [v \in Ids |-> 0]
  /\ given = [v \in Ids |-> 0]
  /\ ref = <<>>
  /\ inSync = TRUE
  /\ last = Call("none", 0, 0, Unit, <<>>, <<>>, <<>>, Unit)

EqNext ==
  \/ DoArrayNew \/ DoPushChecked \/ DoPop
  \/ DoSwitchVecNew \/ DoSVPush \/ DoSVPop \/ DoSwitchHeap \/ DoSwitchStack
  \/ DoEq

EqSpec == EqInit /\ [][EqNext]_vars

\* the build without the std feature: a SwitchVec made empty or from an Array,
\* always inline
NoStdNext ==
  \/ DoArrayNew \/ DoFromParts \/ DoPushChecked \/ DoPop
  \/ DoFromArray \/ DoSwitchVecNew
  \/ DoNoStdPush \/ DoNoStdReserve
  \/ DoSVPop \/ DoSVRemove \/ DoSVClear \/ DoSwitchVecDrop

NoStdSpec == Init /\ [][NoStdNext]_vars

\* an Array whose pop is taken statement by statement; the caller makes no
\* other call while a pop is under way
PopNext ==
  \/ pc.step = 0 /\ (DoArrayNew \/ DoFromParts \/ DoPushChecked \/ DoRemoveChecked \/ DoArrayDrop)
  \/ DoPopFirst
  \/ DoPopSecond

PopSpec == Init /\ [][PopNext]_vars

(***************************************************************************)
(* Properties                                                              *)
(***************************************************************************)
Range(s) == {s[i] : i \in DOMAIN s}
NoDup(s) == \A i, j \in DOMAIN s : i # j => s[i] # s[j]
AllOk(allocs) == \A i \in DOMAIN allocs : allocs[i]
Created == 1..(nextId - 1)
\* how many times v met its end: destroyed by the library or handed back
Fate(v) == drops[v] + given[v]
\* the values the container owns: created, not destroyed, not handed back
Owned == {v \in Created : Fate(v) = 0}
Alive == obj \in {"Array", "SwitchVec"}

\* C1: after any sequence of safe Array operations len <= N, every slot below
\* len holds a live initialized value (one the Array owns, in one slot only),
\* no live value sits outside the slots below len, and as_slice() is exactly
\* the len slots below len, in index order.
C1_ArrayInvariant ==
  obj = "Array" =>
    /\ array.len <= N
    /\ \A i \in 0..(array.len - 1) : array.buf[i] \in Owned
    /\ \A i, j \in 0..(array.len - 1) : i # j => array.buf[i] # array.buf[j]
    /\ Owned = {array.buf[i] : i \in 0..(array.len - 1)}
    /\ Len(as_slice(array)) = array.len
    /\ \A i \in 0..(array.len - 1) : as_slice(array)[i + 1] = array.buf[i]

\* C1 witness: an Array with a stale slot above len (a value was moved out of
\* it or shifted away) that as_slice() does not expose.
C1_Witness ==
  /\ obj = "Array"
  /\ array.len >= 1
  /\ array.len < N
  /\ array.buf[array.len] # Uninit
  /\ last.op \in {"remove_checked", "swap_remove", "pop"}

\* C2: no value is destroyed twice or both destroyed and handed back; while
\* the container lives it holds exactly the values not yet destroyed or handed
\* back, once each; once the container is dropped every value created met its
\* end exactly once (none leaked).
C2_ExactlyOnce ==
  /\ \A v \in Ids : Fate(v) <= 1
  /\ \A v \in Ids \ Created : Fate(v) = 0
  /\ Alive => (Owned = Range(Content) /\ NoDup(Content))
  /\ obj = "dropped" => \A v \in Created : Fate(v) = 1

\* C2 witness: a heap-backed SwitchVec was dropped and destroyed at least two
\* values itself, after at least one value had been handed back to the caller.
C2_Witness ==
  /\ obj = "dropped"
  /\ last.preHeap
  /\ Len(last.dropped) >= 2
  /\ \E v \in Created : given[v] = 1

\* C3: while the length never had to exceed N, the content of the Array after
\* each step equals the reference sequence put through the same calls,
\* push_checked returns Ok and pop returns what the reference's pop returns.
C3_RefinesSequence ==
  (obj = "Array" /\ inSync) =>
    /\ as_slice(array) = ref
    /\ last.op = "pop" => last.ret = last.refRet
    /\ last.op = "push_checked" => last.ret = Ok

\* C3 witness: a pop that returned a value from an Array that still holds one,
\* in a run that stayed within capacity.
C3_Witness ==
  /\ obj = "Array"
  /\ inSync
  /\ last.op = "pop"
  /\ last.ret.kind = "Some"
  /\ Len(ref) >= 1

\* C4: push(v) on an inline SwitchVec whose allocations succeed returns Ok, the
\* content becomes the old content followed by v, and the container is on the
\* heap afterwards iff len = N held before the call.
C4_PushMigratesIffFull ==
  (obj = "SwitchVec" /\ last.op = "push" /\ ~last.preHeap /\ AllOk(last.allocs)) =>
    /\ last.ret = Ok
    /\ Content = Append(last.pre, last.val)
    /\ IsHeap <=> (Len(last.pre) = N)

\* C4 witness: a push on a full inline SwitchVec that moved it to the heap.
C4_Witness ==
  /\ obj = "SwitchVec"
  /\ last.op = "push"
  /\ ~last.preHeap
  /\ Len(last.pre) = N
  /\ last.ret = Ok
  /\ IsHeap

\* C5 (as claimed): whenever reserve returns false on a container that was
\* inline, the container is still inline with its content unchanged.
C5_ReserveFailureLeavesInline ==
  (obj = "SwitchVec" /\ last.op = "reserve" /\ last.ret = False /\ ~last.preHeap) =>
    /\ ~IsHeap
    /\ Content = last.pre

\* C6: when an allocation fails during push or insert (index <= len), the call
\* returns Err with the value passed in, which is not destroyed, and content
\* and length are as before the call.
C6_AllocFailureReturnsValue ==
  (/\ obj = "SwitchVec"
   /\ last.op \in {"push", "insert"}
   /\ ~AllOk(last.allocs)
   /\ last.idx <= Len(last.pre)) =>
    /\ last.ret = Err(last.val)
    /\ Content = last.pre
    /\ drops[last.val] = 0
    /\ given[last.val] = 1

\* C6 witness: an insert into a non-empty inline container whose migration
\* succeeded and whose following allocation failed.
C6_Witness ==
  /\ obj = "SwitchVec"
  /\ last.op = "insert"
  /\ last.allocs = <<TRUE, FALSE>>
  /\ last.idx <= Len(last.pre)
  /\ last.ret.kind = "Err"

\* C7: if switch_heap() returns false the container was inline and still is,
\* content and length are as before, no element was moved or destroyed.
C7_SwitchHeapFailureUnchanged ==
  (obj = "SwitchVec" /\ last.op = "switch_heap" /\ last.ret = False) =>
    /\ ~last.preHeap
    /\ ~IsHeap
    /\ Content = last.pre
    /\ last.moved = <<>>
    /\ last.dropped = <<>>
    /\ \A v \in Range(last.pre) : Fate(v) = 0

\* C7 witness: a failed switch_heap() on a non-empty inline container.
C7_Witness ==
  /\ obj = "SwitchVec"
  /\ last.op = "switch_heap"
  /\ last.ret = False
  /\ Len(last.pre) >= 1

\* C8: a successful switch_heap() on an inline container leaves it on the heap
\* with the same elements in the same order; each was moved once, none destroyed.
C8_SwitchHeapMovesAll ==
  (obj = "SwitchVec" /\ last.op = "switch_heap" /\ last.ret = True /\ ~last.preHeap) =>
    /\ IsHeap
    /\ SwitchVec_len(inner) = Len(last.pre)
    /\ Content = last.pre
    /\ last.moved = last.pre
    /\ last.dropped = <<>>
    /\ \A v \in Range(last.pre) : Fate(v) = 0

\* C8 witness: a successful switch_heap() of a full inline container.
C8_Witness ==
  /\ obj = "SwitchVec"
  /\ last.op = "switch_heap"
  /\ last.ret = True
  /\ ~last.preHeap
  /\ Len(last.pre) = N

\* C9: switch_heap() on a heap-backed container returns true and changes
\* nothing (representation, length, content, capacity), attempts no allocation;
\* and a second switch_heap() after a successful one is such a no-op.
C9_SwitchHeapIdempotent ==
  /\ (obj = "SwitchVec" /\ last.op = "switch_heap" /\ last.preHeap) =>
       /\ last.ret = True
       /\ IsHeap
       /\ Content = last.pre
       /\ SwitchVec_capacity(inner) = last.preCap
       /\ last.allocs = <<>>
       /\ last.moved = <<>>
       /\ last.dropped = <<>>
  /\ obj = "SwitchVec" =>
       \A ok1, ok2 \in BOOLEAN :
         LET once == switch_heap(inner, ok1) IN
         once.ret = True =>
           switch_heap(once.inner, ok2) = SEff(once.inner, True, <<>>, <<>>, <<>>)

\* C9 witness: switch_heap() called on a non-empty heap-backed container.
C9_Witness ==
  /\ obj = "SwitchVec"
  /\ last.op = "switch_heap"
  /\ last.preHeap
  /\ Len(last.pre) >= 1

\* C10: switch_stack() returns with the container inline; from a heap buffer
\* of length L it keeps the first min(L, N) elements in order and destroys the
\* other L - N once each (none when L <= N); on an inline container it changes
\* nothing.
C10_SwitchStackTruncates ==
  (obj = "SwitchVec" /\ last.op = "switch_stack") =>
    /\ last.ret = True
    /\ ~IsHeap
    /\ Content = SubSeq(last.pre, 1, Min(Len(last.pre), N))
    /\ last.dropped = (IF last.preHeap THEN SubSeq(last.pre, N + 1, Len(last.pre)) ELSE <<>>)
    /\ \A v \in Range(last.dropped) : drops[v] = 1 /\ given[v] = 0
    /\ \A v \in Range(Content) : Fate(v) = 0
    /\ ~last.preHeap => (Content = last.pre /\ last.moved = <<>>)

\* C10 witness: switch_stack() on a heap buffer longer than N.
C10_Witness ==
  /\ obj = "SwitchVec"
  /\ last.op = "switch_stack"
  /\ last.preHeap
  /\ Len(last.pre) > N

\* C11: a heap-backed container is found inline after a call only when that
\* call was switch_stack(): pop, remove, swap_remove, clear, push, insert,
\* reserve and switch_heap leave it on the heap, whatever its length becomes.
C11_OnlySwitchStackGoesInline ==
  (obj = "SwitchVec" /\ last.preHeap /\ ~IsHeap) => last.op = "switch_stack"

\* C11 witness: a heap-backed container emptied by pop, remove, swap_remove or
\* clear, and still on the heap.
C11_Witness ==
  /\ obj = "SwitchVec"
  /\ last.preHeap
  /\ last.op \in {"pop", "remove", "swap_remove", "clear"}
  /\ Len(last.pre) >= 1
  /\ Content = <<>>
  /\ IsHeap

\* C12: reserve(additional) on an inline container with len + additional <= N
\* returns true, attempts no allocation and changes nothing: representation,
\* capacity, length and content.
C12_ReserveWithinInlineIsNoOp ==
  (/\ obj = "SwitchVec"
   /\ last.op = "reserve"
   /\ ~last.preHeap
   /\ Len(last.pre) + last.idx <= N) =>
    /\ last.ret = True
    /\ last.allocs = <<>>
    /\ ~IsHeap
    /\ SwitchVec_capacity(inner) = last.preCap
    /\ Content = last.pre
    /\ last.dropped = <<>>
    /\ last.moved = <<>>

\* C12 witness: reserve of exactly the free inline slots of a non-empty container.
C12_Witness ==
  /\ obj = "SwitchVec"
  /\ last.op = "reserve"
  /\ ~last.preHeap
  /\ Len(last.pre) >= 1
  /\ last.idx >= 1
  /\ Len(last.pre) + last.idx = N

\* C13 (as claimed): whenever reserve(additional) returns true, the capacity is
\* at least len + additional, the sum taken over the mathematical integers.
C13_ReserveTrueGivesCapacity ==
  (obj = "SwitchVec" /\ last.op = "reserve" /\ last.ret = True) =>
    SwitchVec_capacity(inner) >= SwitchVec_len(inner) + last.idx

\* the values of a sequence are all still owned by the container
Kept(s) == \A i \in DOMAIN s : Fate(s[i]) = 0

C20_PushChecked ==
  (obj = "Array" /\ last.op = "push_checked") =>
    IF Len(last.pre) = N
    THEN /\ last.ret = Err(last.val)
         /\ Content = last.pre
         /\ array.len = N
         /\ given[last.val] = 1
         /\ drops[last.val] = 0
         /\ last.dropped = <<>>
    ELSE /\ last.ret = Ok
         /\ Content = Append(last.pre, last.val)
         /\ array.len = Len(last.pre) + 1
         /\ last.dropped = <<>>

\* C20 witness: a push_checked rejected by a full buffer.
C20_Witness ==
  /\ obj = "Array"
  /\ last.op = "push_checked"
  /\ Len(last.pre) = N
  /\ last.ret.kind = "Err"

\* C16: on an Array with len < N, insert(i, v) with i <= len immediately
\* followed by remove(i) returns v and leaves content and length exactly as
\* they were before the insert (panicking and checked variants alike).
C16_InsertRemoveRoundTrip ==
  (/\ obj = "Array"
   /\ last.op \in {"remove", "remove_checked"}
   /\ last.inserted.set
   /\ last.idx = last.inserted.idx) =>
    /\ last.ret = Some(last.inserted.val)
    /\ Content = last.inserted.pre
    /\ array.len = Len(last.inserted.pre)
    /\ last.dropped = <<>>

\* C16 witness: insert(i, v) below the end of a non-empty Array, then remove(i).
C16_Witness ==
  /\ obj = "Array"
  /\ last.op = "remove"
  /\ last.inserted.set
  /\ last.idx = last.inserted.idx
  /\ last.idx < Len(last.inserted.pre)
  /\ last.ret.kind = "Some"

\* C15 (as claimed): a failed Array insert reports an out-of-bounds index
\* differently from a full buffer, in insert_checked and in insert alike, and
\* leaves the buffer as it was.  Compared here: the same value inserted at index
\* 0 of the (full) array, and at index 1 of an empty, non-full array.
C15_InsertFailuresDistinct ==
  (obj = "Array" /\ len(array) = N /\ nextId <= MaxVals) =>
    LET full == insert_checked(array, 0, nextId)
        oob == insert_checked(Array_new, 1, nextId)
        pfull == insert(array, 0, nextId)
        poob == insert(Array_new, 1, nextId)
    IN /\ full.ret.kind = "Err" /\ oob.ret.kind = "Err"
       /\ pfull.ret.kind = "Panic" /\ poob.ret.kind = "Panic"
       /\ full.ret # oob.ret
       /\ pfull.ret # poob.ret
       /\ full.arr = array /\ pfull.arr = array
       /\ oob.arr = Array_new /\ poob.arr = Array_new

\* C15 (amended): a failed Array insert leaves content and length unchanged.
\* The panicking insert tells the causes apart by its message: "index out of
\* bounds" when index > len (full or not), "insert exceeds capacity" when the
\* index is in bounds and the buffer is full; the rejected value is destroyed by
\* the unwinding.  insert_checked returns Err(value) for either cause, the value
\* handed back intact and nothing else reported.
C15_InsertFailureReports ==
  (obj = "Array" /\ last.op \in {"insert", "insert_checked"}
     /\ (last.idx > Len(last.pre) \/ Len(last.pre) = N)) =>
    /\ Content = last.pre
    /\ array.len = Len(last.pre)
    /\ IF last.op = "insert"
       THEN /\ last.ret = Panic(IF last.idx > Len(last.pre)
                                THEN "index out of bounds"
                                ELSE "insert exceeds capacity")
            /\ last.dropped = <<last.val>>
            /\ drops[last.val] = 1
            /\ given[last.val] = 0
       ELSE /\ last.ret = Err(last.val)
            /\ last.dropped = <<>>
            /\ given[last.val] = 1
            /\ drops[last.val] = 0

\* C15 witness: the panicking insert rejected for an out-of-bounds index on a
\* buffer that still has room.
C15_Witness ==
  /\ obj = "Array"
  /\ last.op = "insert"
  /\ last.idx > Len(last.pre)
  /\ Len(last.pre) < N
  /\ last.ret.kind = "Panic"

\* C21: Array::remove_checked, Array::swap_remove_checked, SwitchVec::remove and
\* SwitchVec::swap_remove with index >= len return None and leave the content,
\* the length and (for SwitchVec) the representation unchanged; pop on an empty
\* container returns None and changes nothing.
C21_OutOfBoundsIsNone ==
  (\/ /\ obj = "Array"
      /\ last.op \in {"remove_checked", "swap_remove_checked"}
      /\ last.idx >= Len(last.pre)
   \/ /\ obj = "SwitchVec"
      /\ last.op \in {"remove", "swap_remove"}
      /\ last.idx >= Len(last.pre)
   \/ /\ obj \in {"Array", "SwitchVec"}
      /\ last.op = "pop"
      /\ last.pre = <<>>) =>
    /\ last.ret = None
    /\ Content = last.pre
    /\ last.dropped = <<>>
    /\ obj = "Array" => array.len = Len(last.pre)
    /\ obj = "SwitchVec" =>
         /\ SwitchVec_len(inner) = Len(last.pre)
         /\ IsHeap = last.preHeap
         /\ SwitchVec_capacity(inner) = last.preCap

\* C21 witness: remove past the end of a non-empty heap-backed container.
C21_Witness ==
  /\ obj = "SwitchVec"
  /\ last.op = "remove"
  /\ last.preHeap
  /\ Len(last.pre) >= 1
  /\ last.idx >= Len(last.pre)
  /\ last.ret = None

\* C22: Array::clear() destroys each of the len live elements exactly once, in
\* increasing index order; afterwards len = 0 and is_empty() holds; no
\* destructor runs on a slot at index >= len (exactly len destructors run, and
\* no value is ever destroyed twice).
C22_ClearDropsInOrder ==
  (obj = "Array" /\ last.op = "clear") =>
    /\ last.dropped = last.pre
    /\ \A i \in DOMAIN last.pre : drops[last.pre[i]] = 1 /\ given[last.pre[i]] = 0
    /\ array.len = 0
    /\ is_empty(array)
    /\ Len(last.dropped) = Len(last.pre)
    /\ \A v \in Ids : drops[v] <= 1

\* C22 witness: clear() of an Array holding at least two elements.
C22_Witness ==
  /\ obj = "Array"
  /\ last.op = "clear"
  /\ Len(last.pre) >= 2

\* C23: for the consuming iterator of an Array, under any interleaving of
\* next() and next_back() followed by the iterator's drop: into_iter() leaves
\* the Array's L elements to be yielded, in index order; next() yields the first
\* of what remains and next_back() the last (None when nothing remains), so no
\* element is yielded twice and at most L are yielded; the drop destroys what
\* remains, each once, and every element has then met its end exactly once.
C23_IntoIterYieldsOnce ==
  /\ \A v \in Ids : Fate(v) <= 1
  /\ obj = "IntoIter" =>
       /\ iter.cur <= iter.end /\ iter.end <= N
       /\ Owned = Range(Content) /\ NoDup(Content)
       /\ last.dropped = <<>>
       /\ last.op = "into_iter" => Content = last.pre
       /\ last.op = "next" =>
            IF last.pre = <<>> THEN last.ret = None /\ Content = <<>>
            ELSE last.ret = Some(Head(last.pre)) /\ Content = Tail(last.pre)
       /\ last.op = "next_back" =>
            IF last.pre = <<>> THEN last.ret = None /\ Content = <<>>
            ELSE /\ last.ret = Some(last.pre[Len(last.pre)])
                 /\ Content = SubSeq(last.pre, 1, Len(last.pre) - 1)
  /\ (obj = "dropped" /\ last.op = "iter_drop") =>
       /\ last.dropped = last.pre
       /\ \A v \in Created : Fate(v) = 1

\* C23 witness: an iterator dropped with elements left, after next() had
\* yielded at least one (cur is beyond the slots the drop itself walked).
C23_Witness ==
  /\ obj = "dropped"
  /\ last.op = "iter_drop"
  /\ Len(last.dropped) >= 1
  /\ iter.cur > Len(last.dropped)

\* C24: Array::<N>::from_parts of an array of M elements: with M <= N it yields
\* a buffer of length M holding the input elements in order, each moved once
\* (none destroyed, none duplicated); with M > N it panics before anything is
\* copied and no buffer is produced.
C24_FromParts ==
  last.op = "from_parts" =>
    LET M == last.idx
        items == Fresh(nextId - M, M)
    IN IF M <= N
       THEN /\ obj = "Array"
            /\ last.ret.kind # "Panic"
            /\ array.len = M
            /\ as_slice(array) = items
            /\ \A i \in M..(N - 1) : array.buf[i] = Uninit
            /\ last.dropped = <<>>
            /\ \A i \in 1..M : Fate(items[i]) = 0
       ELSE /\ obj = "none"
            /\ last.ret.kind = "Panic"
            /\ array = Array_new
            /\ \A i \in 1..M : given[items[i]] = 0

\* C24 witness: from_parts of a full-size input array.
C24_Witness ==
  /\ last.op = "from_parts"
  /\ obj = "Array"
  /\ last.idx = N
  /\ array.len = N

\* C25: into_vec on an inline container and into_array on a heap-backed one
\* return Err holding the original container, its content, length, capacity and
\* representation unchanged; when the requested representation is the active
\* one they return the underlying storage with the same content.  Nothing is
\* destroyed by either call, and whatever the caller holds afterwards owns the
\* elements once each until it is dropped.
C25_IntoVecIntoArray ==
  /\ last.op = "into_vec" =>
       /\ last.dropped = <<>>
       /\ IF last.preHeap
          THEN /\ last.ret = OkVec
               /\ obj = "Vec"
               /\ vec.elems = last.pre
               /\ vec.cap = last.preCap
          ELSE /\ last.ret = ErrSelf
               /\ obj = "SwitchVec"
               /\ ~IsHeap
               /\ Content = last.pre
               /\ SwitchVec_len(inner) = Len(last.pre)
               /\ SwitchVec_capacity(inner) = last.preCap
  /\ last.op = "into_array" =>
       /\ last.dropped = <<>>
       /\ IF last.preHeap
          THEN /\ last.ret = ErrSelf
               /\ obj = "SwitchVec"
               /\ IsHeap
               /\ Content = last.pre
               /\ SwitchVec_len(inner) = Len(last.pre)
               /\ SwitchVec_capacity(inner) = last.preCap
          ELSE /\ last.ret = OkArray
               /\ obj = "Array"
               /\ as_slice(array) = last.pre
               /\ array.len = Len(last.pre)
  /\ \A v \in Ids : Fate(v) <= 1
  /\ obj \in {"SwitchVec", "Vec", "Array"} => (Owned = Range(Content) /\ NoDup(Content))
  /\ obj = "dropped" => \A v \in Created : Fate(v) = 1

\* C25 witness: into_vec refused by a non-empty inline container.
C25_Witness ==
  /\ last.op = "into_vec"
  /\ ~last.preHeap
  /\ Len(last.pre) >= 1
  /\ last.ret = ErrSelf

\* the payloads of a sequence of values
Payloads(s) == [i \in 1..Len(s) |-> Val(s[i])]
\* the logical content of the first container: the reference sequence while it
\* follows, what the container exposes otherwise
Live == IF inSync THEN ref ELSE Content

\* C26: two Arrays, or two SwitchVecs, compare equal iff they have the same
\* length and equal elements at every index, whatever their capacities N and M
\* and whether each SwitchVec is inline or heap-backed; the comparison changes
\* neither.
C26_EqualityByContent ==
  last.op = "eq" =>
    /\ (last.ret = True) <=> (Payloads(Live) = Payloads(other.items))
    /\ last.ret \in {True, False}
    /\ Content = last.pre
    /\ IsHeap = last.preHeap

\* C26 witness: an inline SwitchVec<N> found equal to a non-empty heap-backed
\* SwitchVec<M>.
C26_Witness ==
  /\ last.op = "eq"
  /\ obj = "SwitchVec"
  /\ ~IsHeap
  /\ is_heap(other.inner)
  /\ Len(Content) >= 1
  /\ last.ret = True

\* C27: while every allocation succeeds, a SwitchVec put through push, pop,
\* insert (index <= len), remove, swap_remove and clear has at every step the
\* content of a reference unbounded sequence put through the same calls, and
\* each call returns what the reference's call returns, whichever representation
\* is active and whenever the migration happened.
C27_SwitchVecRefinesSequence ==
  (obj = "SwitchVec" /\ inSync) =>
    /\ Content = ref
    /\ SwitchVec_len(inner) = Len(ref)
    /\ (\/ last.op \in {"push", "pop", "remove", "swap_remove", "clear"}
        \/ last.op = "insert" /\ last.idx <= Len(last.pre)) =>
         last.ret = last.refRet

\* C27 witness: a swap_remove at the front of a heap-backed container of three
\* or more elements, every allocation so far having succeeded.
C27_Witness ==
  /\ obj = "SwitchVec"
  /\ inSync
  /\ IsHeap
  /\ last.op = "swap_remove"
  /\ last.idx = 0
  /\ Len(last.pre) >= 3

\* C28 (as claimed): in the build without the std feature too, push(v) on an
\* inline SwitchVec<N> with len < N returns Ok and appends v, staying inline.
C28_NoStdPushWithinCapacity ==
  (obj = "SwitchVec" /\ last.op = "push" /\ ~last.preHeap /\ Len(last.pre) < N) =>
    /\ last.ret = Ok
    /\ Content = Append(last.pre, last.val)
    /\ ~IsHeap

\* a panicking call p against the checked call c on the same Array with the
\* same arguments: p panics exactly when c reports `failure`; otherwise both
\* leave the same Array, and p returns the value c returns in Some
Matches(p, c, failure) ==
  IF c.ret.kind = failure
  THEN p.ret.kind = "Panic"
  ELSE /\ p.ret.kind # "Panic"
       /\ p.arr = c.arr
       /\ c.ret.kind = "Some" => p.ret = c.ret
       /\ p.dropped = c.dropped

C30_PopShortensBeforeRead ==
  obj = "Array" =>
    /\ \A i \in 0..(array.len - 1) : Fate(array.buf[i]) = 0
    /\ NoDup(as_slice(array))
    /\ pc.step = 1 =>
         /\ array.len = pc.entry.len - 1
         /\ array.buf = pc.entry.buf
         /\ Fate(array.buf[array.len]) = 0
    /\ last.op = "pop" =>
         /\ last.ret = Some(array.buf[array.len])
         /\ given[last.ret.val] = 1
         /\ Content = last.pre
         /\ array = pop_unchecked(pc.entry).arr
         /\ last.ret = pop_unchecked(pc.entry).ret

\* C30 witness: between the two statements of a pop on an Array of two or
\* more elements.
C30_Witness ==
  /\ obj = "Array"
  /\ pc.step = 1
  /\ pc.entry.len >= 2
  /\ last.op = "pop: first statement"

\* C31: SwitchVec::insert(index, v) with index > len leaves the container as
\* it was: the same representation, the same content and the same length once
\* the call has ended, by error return or by panic, a full inline container
\* included
C31_InsertOutOfBoundsUnchanged ==
  (obj = "SwitchVec" /\ last.op = "insert" /\ last.idx > Len(last.pre))
    => /\ IsHeap = last.preHeap
       /\ Content = last.pre
       /\ SwitchVec_len(inner) = Len(last.pre)

(***************************************************************************)
(* Element destructors that panic: the calls on an Array whose clear() can *)
(* be interrupted by an unwinding destructor, the caller catching the      *)
(* panic and going on with the Array (or letting it go out of scope)       *)
(***************************************************************************)
DoClearUnwinds ==
  /\ obj = "Array"
  /\ \A v \in Ids : drops[v] <= 1
  /\ \E j \in 0..(array.len - 1) :
       ArrayStep("clear: destructor panics", j, 0, clear_unwinds(array, j), 0, ref, Unit, TRUE)

UnwindNext ==
  \/ DoArrayNew
  \/ DoFromParts
  \/ DoPushChecked
  \/ DoPop
  \/ DoClear
  \/ DoClearUnwinds
  \/ DoArrayDrop

UnwindSpec == Init /\ [][UnwindNext]_vars

\* C32: when an element destructor panics while Array::clear() is running, no
\* element is destroyed a second time afterwards: what the interrupted clear
\* has destroyed is no longer below len, so neither dropping the Array nor
\* clearing it again runs a destructor twice
C32_InterruptedClearNoSecondDrop ==
  /\ \A v \in Ids : drops[v] <= 1
  /\ (obj = "Array" /\ last.op = "clear: destructor panics")
       => \A i \in 0..(array.len - 1) : drops[array.buf[i]] = 0

C34_HeapBuffersReleasedOnce ==
  /\ bufs \in {0, 1}
  /\ obj = "SwitchVec" =>
       bufs = IF inner.tag = "Heap" /\ inner.vec.cap > 0 THEN 1 ELSE 0
  /\ obj \in {"none", "Array", "dropped"} => bufs = 0
  /\ (last.op \in {"switch_stack", "drop"} /\ last.preHeap /\ last.preCap > 0)
       => bufs = 0

\* C34 witness: a container holding at least one element in a heap buffer
\* has been dropped, and the buffer went with it.
C34_Witness ==
  /\ obj = "dropped"
  /\ last.op = "drop"
  /\ last.preHeap
  /\ last.preCap > 0
  /\ Len(last.pre) >= 1
  /\ bufs = 0

(***************************************************************************)
(* Arrays built from a raw pointer: the caller hands over len values that  *)
(* lie at ptr; when the call panics the values stay the caller's           *)
(***************************************************************************)
DoFromRawParts ==
  \E l \in 0..(N + 1) :
    /\ obj = "none"
    /\ nextId + l - 1 <= MaxVals
    /\ \E e \in {from_raw_parts(Fresh(nextId, l), l, elided) : elided \in BOOLEAN} :
         /\ obj' = IF e.ret.kind = "Panic" THEN "none" ELSE "Array"
         /\ array' = e.arr
         /\ drops' = [v \in Ids |-> drops[v] + Count(v, e.dropped)]
         /\ given' = IF e.ret.kind = "Panic"
                     THEN [v \in Ids |-> given[v] + Count(v, Fresh(nextId, l))]
                     ELSE given
         /\ nextId' = nextId + l
         /\ Follow(Fresh(nextId, l), l <= N)
         /\ last' = [Call("from_raw_parts", l, 0, e.ret, e.dropped, <<>>, <<>>, Unit)
                       EXCEPT !.oob = e.oob]
    /\ UNCHANGED <<iter, vec, inner, other, pc, bufs>>

RawNext ==
  \/ DoFromRawParts
  \/ DoPushChecked
  \/ DoPop
  \/ DoRemoveChecked
  \/ DoClear
  \/ DoArrayDrop

RawSpec == Init /\ [][RawNext]_vars

\* C35: Array::<N>::from_raw_parts(ptr, len) with a pointer valid for len
\* reads and len > N panics without having written any element outside the
\* N slots of the new buffer: the len <= N test takes effect before any copy
C35_FromRawPartsChecksBeforeCopy ==
  (last.op = "from_raw_parts" /\ last.idx > N)
    => /\ last.ret.kind = "Panic"
       /\ last.oob = <<>>

(***************************************************************************)
(* Arrays filled from an iterator: extend and collect                      *)
(***************************************************************************)
\* iter.collect::<Array<N, _>>() over an iterator of k fresh values
DoFromIter ==
  \E k \in 0..(N + 2) :
    /\ obj = "none"
    /\ nextId + k - 1 <= MaxVals
    /\ LET items == Fresh(nextId, k)
           x == from_iter(items)
       IN /\ obj' = "Array"
          /\ array' = x.arr
          /\ Account(Unit, x.dropped \o x.rest, k)
          /\ Follow(items, k <= N)
          /\ last' = Call("from_iter", k, 0, Unit, x.dropped \o x.rest, <<>>, <<>>, Unit)
    /\ UNCHANGED <<iter, vec, inner, other, pc, bufs>>

ExtendNext ==
  \/ DoArrayNew
  \/ DoFromIter
  \/ DoExtend
  \/ DoPushChecked
  \/ DoPop
  \/ DoRemoveChecked
  \/ DoArrayDrop

ExtendSpec == Init /\ [][ExtendNext]_vars

\* C36: Array::extend(items), and collecting an iterator into an Array, never
\* panics and never makes len exceed N: the items are appended in order until
\* the buffer is full, so the content is the old content followed by the
\* first min(k, N - len) of the k items; every item that was not stored, the
\* one taken from the iterator and rejected included, is destroyed exactly
\* once, and no stored or earlier element is destroyed
C36_ExtendFillsAndStops ==
  (obj = "Array" /\ last.op \in {"extend", "from_iter"}) =>
    LET k == last.idx
        items == Fresh(nextId - k, k)
        room == N - Len(last.pre)
        taken == Min(k, room)
    IN /\ last.ret = Unit
       /\ array.len <= N
       /\ array.len = Len(last.pre) + taken
       /\ Content = last.pre \o SubSeq(items, 1, taken)
       /\ last.dropped = SubSeq(items, taken + 1, k)
       /\ \A i \in 1..k :
            /\ given[items[i]] = 0
            /\ drops[items[i]] = IF i <= taken THEN 0 ELSE 1
       /\ \A i \in 1..Len(last.pre) : Fate(last.pre[i]) = 0
       /\ last.op = "from_iter" => last.pre = <<>>

\* C36 witness: extend on an Array that holds an element already was given
\* more items than fit; it stored some and destroyed the others.
C36_Witness ==
  /\ obj = "Array"
  /\ last.op = "extend"
  /\ Len(last.pre) >= 1
  /\ array.len = N
  /\ array.len > Len(last.pre)
  /\ Len(last.dropped) >= 2

(***************************************************************************)
(* Clones: the caller clones the container; the clone is the second        *)
(* container                                                               *)
(***************************************************************************)
DoClone ==
  /\ obj = "SwitchVec"
  /\ \E c \in {SwitchVec_clone(inner, oks) :
                 oks \in [1..SwitchVec_len(inner) -> BOOLEAN \X BOOLEAN]} :
       /\ other' = [kind |-> "SwitchVec", array |-> Array_new, inner |-> c.inner,
                    items |-> SwitchVec_as_slice(c.inner)]
       /\ last' = Call("clone", 0, 0, Unit, c.dropped, c.allocs, <<>>, Unit)
  /\ UNCHANGED <<obj, array, iter, vec, pc, bufs, inner, nextId, drops, given, ref, inSync>>

CloneNext ==
  \/ DoSwitchVecNew
  \/ DoSVPush
  \/ DoSVPop
  \/ DoSwitchHeap
  \/ DoSwitchStack
  \/ DoClone
  \/ DoSwitchVecDrop

CloneSpec == Init /\ [][CloneNext]_vars

\* C37: SwitchVec::clone() returns a container whose content equals that of
\* the original, with the same length and equal elements in the same order,
\* whatever the outcome of the allocations attempted while the clone is
\* built: no element is silently left out
C37_CloneHasAllElements ==
  (obj = "SwitchVec" /\ last.op = "clone") =>
    /\ other.kind = "SwitchVec"
    /\ SwitchVec_len(other.inner) = SwitchVec_len(inner)
    /\ SwitchVec_as_slice(other.inner) =
         [i \in 1..SwitchVec_len(inner) |-> CloneOf(SwitchVec_as_slice(inner)[i])]
    /\ SwitchVec_eq(other.inner, inner)

====
